---- MODULE Spec2Model ----
(***************************************************************************)
(* Ingestion (dedup + embedding store) and retrieval of                    *)
(* src/src/embedding/embedding_generator.py, modelled for the client that  *)
(* was constructed with credentials (mock_mode = False); the chunker of    *)
(* src/src/chunking/semantic_chunker.py; the driver of                     *)
(* src/batch_processor.py.                                                 *)
(*                                                                         *)
(* A text is a sequence of one-character strings.  A chunk handed to the   *)
(* store is [video_id, chunk_index, text]: ingestion copies the timestamps *)
(* and the metadata of a Chunk into the record untouched.  A chunk made by *)
(* the chunker also carries start_timestamp and end_timestamp, each a pair *)
(* <<numerator, denominator>> of seconds.  The table                       *)
(* video_chunks is the sequence `store`, in insertion order, and a select  *)
(* returns its rows in that order.  Every request to the embedding         *)
(* provider or to the table either succeeds or raises.                     *)
(*                                                                         *)
(*   Spec        one writer ingests short chunk lists, one call at a time  *)
(*   SpecBig     one writer ingests a list longer than an insert batch     *)
(*               and runs the same list again                              *)
(*   SpecSearch  one search against a table of up to MaxRows rows          *)
(*   SpecChunk   one chunk_transcription call                              *)
(*   SpecRace    two processes ingest the same chunk list                  *)
(*   SpecDriver  one run of the batch driver over a list of videos         *)
(*   SpecStore   Spec with a search, on fewer chunks                       *)
(*   SpecCross   Spec with room for the chunks of two videos               *)
(*   SpecRerun   one run of the batch driver on a store that holds the     *)
(*               first insert batch only of a video                        *)
(***************************************************************************)
EXTENDS Integers, Sequences, FiniteSets, TLC

\* ------------------------------------------------------------------ bounds
MaxWork   == 6      \* calls made plus chunks handed over in one behaviour
MaxRuns   == 2      \* runs of the same long chunk list in one behaviour
MaxExtra  == 1      \* a long chunk list has batch_size + 1..MaxExtra chunks
MaxRows   == 3      \* rows of the table in the search specification
MaxSegs   == 3      \* short segments in one chunk_transcription call
MaxLongSegs == 2    \* long segments in one chunk_transcription call
MaxRaceChunks == 2  \* chunks of the list that two processes ingest
MaxVideos == 2      \* video files in one run of the batch driver
MaxStoreWork == 4   \* calls made plus chunks handed over, with a search
MaxCrossWork == 7   \* calls made plus chunks handed over, for two videos

\* ------------------------------------------------------- program constants
batch_size == 100

Procs    == {1, 2}
VideoIds == {"v1", "v2"}
Texts    == {<<"a">>, <<" ", "A", " ">>, <<"b">>}

Min(a, b) == IF a < b THEN a ELSE b

\* --------------------------------------------------------------- inputs
MkChunks(v, ts) ==
    [i \in 1..Len(ts) |-> [video_id |-> v, chunk_index |-> i - 1, text |-> ts[i]]]

\* the text of the i-th padding chunk: i written in base 2 with the digits c, d
RECURSIVE Word(_, _)
Word(i, width) ==
    IF width = 0 THEN <<>>
    ELSE Append(Word(i \div 2, width - 1), IF i % 2 = 0 THEN "c" ELSE "d")

Pad(from, to) == [k \in 1..(to - from) |-> Word(from + k, 9)]

\* long chunk lists: two chunks with the texts a or b, then padding chunks
\* with pairwise distinct texts, batch_size + e chunks in all
BigHeads == [1..2 -> {<<"a">>, <<"b">>}]

BigLists ==
    {MkChunks("v1", ts \o Pad(Len(ts), batch_size + e)) :
        ts \in BigHeads, e \in 1..MaxExtra}

\* ------------------------------------------------- _get_content_hash
IsSpace(c) == c = " "

Lower(c) == IF c = "A" THEN "a" ELSE IF c = "B" THEN "b" ELSE c

lower(text) == [i \in 1..Len(text) |-> Lower(text[i])]

\* str.split(): the maximal runs of non-whitespace characters
RECURSIVE split(_, _, _)
split(s, cur, acc) ==
    IF s = <<>> THEN (IF cur = <<>> THEN acc ELSE Append(acc, cur))
    ELSE IF IsSpace(Head(s))
         THEN split(Tail(s), <<>>, IF cur = <<>> THEN acc ELSE Append(acc, cur))
         ELSE split(Tail(s), Append(cur, Head(s)), acc)

\* " ".join(words)
RECURSIVE join(_)
join(words) ==
    IF words = <<>> THEN <<>>
    ELSE IF Len(words) = 1 THEN words[1]
    ELSE words[1] \o <<" ">> \o join(Tail(words))

\* " ".join(text.strip().lower().split()); split() drops the leading and
\* trailing whitespace that strip() removes
normalized_text(text) == join(split(lower(text), <<>>, <<>>))

\* hashlib.md5 is taken to be collision free: the digest stands for its input
md5(t) == [digest |-> t]

get_content_hash(text) == md5(normalized_text(text))

\* ------------------------------------------------- _check_existing_chunks
\* f"{video_id}_{chunk_index}": injective in the pair, modelled as the pair
ChunkKey(video_id, chunk_index) == <<video_id, chunk_index>>

\* the dict existing_content_hashes after the loop over result.data:
\* a later row with the same hash overwrites the key of an earlier one
existing_content_hashes(rows) ==
    LET hash == <<>> \o [i \in 1..Len(rows) |-> get_content_hash(rows[i].chunk_text)]
        rowsOf(h)  == {i \in 1..Len(rows) : hash[i] = h}
        lastRow(h) == CHOOSE i \in rowsOf(h) : \A j \in rowsOf(h) : j <= i
    IN [h \in {hash[i] : i \in 1..Len(rows)} |->
            ChunkKey(rows[lastRow(h)].video_id, rows[lastRow(h)].chunk_index)]

\* the keys added to existing_chunks for one video that has rows
FoundKeys(rows, chunks, video_id) ==
    LET m == existing_content_hashes(rows)
    IN {m[get_content_hash(chunks[i].text)] :
            i \in {j \in 1..Len(chunks) :
                     /\ chunks[j].video_id = video_id
                     /\ get_content_hash(chunks[j].text) \in DOMAIN m}}

RowsOf(table, video_id) == SelectSeq(table, LAMBDA r : r.video_id = video_id)

\* ------------------------------------------------------- insert_chunks
\* zip(chunks, embeddings)
zip(chunks, embeddings) ==
    [i \in 1..Min(Len(chunks), Len(embeddings)) |->
        [chunk |-> chunks[i], embedding |-> embeddings[i]]]

\* FilterNew as it would be if only new_chunks were filtered and the
\* embeddings list were zipped unfiltered
FilterNewMisaligned(chunks, embeddings, existing_chunks) ==
    LET new == SelectSeq(chunks,
                  LAMBDA c : ChunkKey(c.video_id, c.chunk_index) \notin existing_chunks)
    IN zip(new, embeddings)

\* new_chunks and new_embeddings: the pairs whose own key is not in existing_chunks
FilterNew(chunks, embeddings, existing_chunks) ==
    SelectSeq(zip(chunks, embeddings),
              LAMBDA z : ChunkKey(z.chunk.video_id, z.chunk.chunk_index)
                            \notin existing_chunks)

\* the records list; uuid4 ids are fresh, modelled by a counter
MakeRecords(new, firstId) ==
    [k \in 1..Len(new) |->
        [id          |-> firstId + k - 1,
         video_id    |-> new[k].chunk.video_id,
         chunk_text  |-> new[k].chunk.text,
         chunk_index |-> new[k].chunk.chunk_index,
         embedding   |-> new[k].embedding]]

\* records[i:i + batch_size]
Batch(records, i) == SubSeq(records, i + 1, Min(i + batch_size, Len(records)))

\* the vector the provider computes for a text: a list of numbers that
\* differs for the short texts that differ (the length of the text, then its
\* last 16 characters read as a number in base 2 with the digits a, c = 0
\* and b, d = 1)
RECURSIVE Base2(_)
Base2(text) ==
    IF text = <<>> THEN 0
    ELSE 2 * Base2(SubSeq(text, 1, Len(text) - 1))
         + (IF text[Len(text)] \in {"b", "d"} THEN 1 ELSE 0)

EmbeddingOf(text) ==
    [kind |-> "list",
     val  |-> <<Len(text),
                Base2(SubSeq(text, IF Len(text) > 16 THEN Len(text) - 15 ELSE 1,
                             Len(text)))>>]

\* generate_embeddings_batch: one vector per text, in the order of the texts
generate_embeddings_batch(texts) == [i \in 1..Len(texts) |-> EmbeddingOf(texts[i])]

TextsOf(chunks) == [i \in 1..Len(chunks) |-> chunks[i].text]

\* ------------------------------------------------- search_similar_chunks
\* A stored embedding is a native list of numbers, a string (a sequence of
\* characters) or None.
NoEmbedding == [kind |-> "none", val |-> <<>>]

ListEmb(v) == [kind |-> "list", val |-> v]

StrEmb(cs) == [kind |-> "str", val |-> cs]

\* chunk.get('embedding') is truthy
Truthy(e) == e.kind # "none" /\ e.val # <<>>

\* str.strip('[]')
RECURSIVE lstrip(_)
lstrip(cs) ==
    IF cs # <<>> /\ Head(cs) \in {"[", "]"} THEN lstrip(Tail(cs)) ELSE cs

RECURSIVE rstrip(_)
rstrip(cs) ==
    IF cs # <<>> /\ cs[Len(cs)] \in {"[", "]"}
    THEN rstrip(SubSeq(cs, 1, Len(cs) - 1)) ELSE cs

strip_brackets(cs) == rstrip(lstrip(cs))

\* str.split(','): the pieces between the commas, empty pieces included
RECURSIVE split_comma(_, _, _)
split_comma(cs, cur, acc) ==
    IF cs = <<>> THEN Append(acc, cur)
    ELSE IF Head(cs) = ","
         THEN split_comma(Tail(cs), <<>>, Append(acc, cur))
         ELSE split_comma(Tail(cs), Append(cur, Head(cs)), acc)

Digits == {"0", "1", "2"}

DigitValue(c) == IF c = "0" THEN 0 ELSE IF c = "1" THEN 1 ELSE 2

\* float(x) raises ValueError unless x is an optional sign and digits
IsFloat(tok) ==
    LET body == IF tok # <<>> /\ Head(tok) = "-" THEN Tail(tok) ELSE tok
    IN body # <<>> /\ \A i \in 1..Len(body) : body[i] \in Digits

RECURSIVE Decimal(_)
Decimal(ds) ==
    IF ds = <<>> THEN 0
    ELSE 10 * Decimal(SubSeq(ds, 1, Len(ds) - 1)) + DigitValue(ds[Len(ds)])

float(tok) ==
    IF Head(tok) = "-" THEN 0 - Decimal(Tail(tok)) ELSE Decimal(tok)

\* [float(x) for x in chunk_embedding.strip('[]').split(',')], or the
\* native list; ok is FALSE where the code raises ValueError
ParseEmbedding(e) ==
    IF e.kind = "str"
    THEN LET toks == split_comma(strip_brackets(e.val), <<>>, <<>>)
         IN IF \A i \in 1..Len(toks) : IsFloat(toks[i])
            THEN [ok |-> TRUE, vec |-> [i \in 1..Len(toks) |-> float(toks[i])]]
            ELSE [ok |-> FALSE, vec |-> <<>>]
    ELSE [ok |-> TRUE, vec |-> e.val]

RECURSIVE SumSeq(_)
SumSeq(xs) == IF xs = <<>> THEN 0 ELSE Head(xs) + SumSeq(Tail(xs))

dot_product(vec1, vec2) == SumSeq([i \in 1..Len(vec1) |-> vec1[i] * vec2[i]])

\* A similarity is kept exactly, as the fraction num / den with den > 0 that
\* equals sign(s) * s * s for the cosine s: the map is strictly increasing,
\* so the order and the ties of the similarities are those of the cosines
\* computed without rounding.
Zero == [num |-> 0, den |-> 1]

\* cosine_similarity as it would be without the division by the magnitudes
dot_similarity(vec1, vec2) ==
    IF Len(vec1) # Len(vec2) THEN Zero
    ELSE LET d == dot_product(vec1, vec2)
         IN [num |-> IF d < 0 THEN 0 - d * d ELSE d * d, den |-> 1]

cosine_similarity(vec1, vec2) ==
    IF Len(vec1) # Len(vec2) THEN Zero
    ELSE LET d  == dot_product(vec1, vec2)
             m1 == dot_product(vec1, vec1)
             m2 == dot_product(vec2, vec2)
         IN IF m1 = 0 \/ m2 = 0 THEN Zero
            ELSE [num |-> IF d < 0 THEN 0 - d * d ELSE d * d, den |-> m1 * m2]

SimLess(s1, s2) == s1.num * s2.den < s2.num * s1.den

SimEq(s1, s2) == s1.num * s2.den = s2.num * s1.den

\* Similarities as it would be if a row that does not parse ended the loop
\* through the outer handler, which returns []
RECURSIVE SimilaritiesAbort(_, _)
SimilaritiesAbort(rows, query_embedding) ==
    IF \E i \in 1..Len(rows) :
          Truthy(rows[i].embedding) /\ ~ParseEmbedding(rows[i].embedding).ok
    THEN <<>>
    ELSE IF rows = <<>> THEN <<>>
    ELSE IF ~Truthy(Head(rows).embedding)
    THEN SimilaritiesAbort(Tail(rows), query_embedding)
    ELSE <<[chunk |-> Head(rows),
            sim |-> cosine_similarity(query_embedding,
                                      ParseEmbedding(Head(rows).embedding).vec)]>>
         \o SimilaritiesAbort(Tail(rows), query_embedding)

\* the list similarities: (chunk, similarity) of the rows that parse
RECURSIVE Similarities(_, _)
Similarities(rows, query_embedding) ==
    IF rows = <<>> THEN <<>>
    ELSE LET row  == Head(rows)
             rest == Similarities(Tail(rows), query_embedding)
             e    == ParseEmbedding(row.embedding)
         IN IF Truthy(row.embedding) /\ e.ok
            THEN <<[chunk |-> row,
                    sim |-> cosine_similarity(query_embedding, e.vec)]>> \o rest
            ELSE rest

\* insert x behind every element whose similarity is not smaller
RECURSIVE InsertDesc(_, _)
InsertDesc(sorted, x) ==
    IF sorted = <<>> THEN <<x>>
    ELSE IF SimLess(Head(sorted).sim, x.sim) THEN <<x>> \o sorted
    ELSE <<Head(sorted)>> \o InsertDesc(Tail(sorted), x)

\* SortDesc as it would be with a sort that is not stable for equal keys:
\* x goes in front of the elements with the same similarity
RECURSIVE InsertDescUnstable(_, _)
InsertDescUnstable(sorted, x) ==
    IF sorted = <<>> THEN <<x>>
    ELSE IF ~SimLess(x.sim, Head(sorted).sim) THEN <<x>> \o sorted
    ELSE <<Head(sorted)>> \o InsertDescUnstable(Tail(sorted), x)

RECURSIVE SortDescUnstable(_)
SortDescUnstable(xs) ==
    IF xs = <<>> THEN <<>>
    ELSE InsertDescUnstable(SortDescUnstable(SubSeq(xs, 1, Len(xs) - 1)), xs[Len(xs)])

\* similarities.sort(key=lambda x: x[1], reverse=True): a stable sort
RECURSIVE SortDesc(_)
SortDesc(xs) ==
    IF xs = <<>> THEN <<>>
    ELSE InsertDesc(SortDesc(SubSeq(xs, 1, Len(xs) - 1)), xs[Len(xs)])

\* [chunk for chunk, sim in similarities[:limit]], limit >= 0
TopChunks(similarities, limit) ==
    [k \in 1..Min(limit, Len(similarities)) |-> similarities[k].chunk]

\* query.execute(): the rows in scope; an empty video_id means no filter
NoVideo == ""

\* Scope as it would be without the filter query.eq("video_id", video_id)
ScopeUnfiltered(table, video_id) == table

Scope(table, video_id) ==
    IF video_id = NoVideo THEN table ELSE RowsOf(table, video_id)

search_similar_chunks(table, query_embedding, video_id, limit) ==
    LET all_chunks == Scope(table, video_id)
    IN IF all_chunks = <<>> THEN <<>>
       ELSE TopChunks(SortDesc(Similarities(all_chunks, query_embedding)), limit)

\* ------------------------------------------------------- search inputs
EmbForms ==
    {ListEmb(<<1, 0>>), ListEmb(<<2, 2>>), ListEmb(<<0 - 1, 0>>), ListEmb(<<0, 0>>),
     StrEmb(<<"[", "1", ",", "1", "]">>), StrEmb(<<"[", "1", ",", "x", "]">>),
     NoEmbedding}

Queries == {<<1, 0>>, <<1, 1>>, <<0, 0>>}

Limits == {0, 2, 5}

SearchRow(i, v, e) ==
    [id |-> i, video_id |-> v, chunk_text |-> <<"a">>, chunk_index |-> i - 1,
     embedding |-> e]

SearchTable(vs, es) == [i \in 1..Len(vs) |-> SearchRow(i, vs[i], es[i])]

\* ------------------------------------------------------ SemanticChunker
\* str.strip() of a text whose only whitespace is the space
strip(s) ==
    LET keep == {i \in 1..Len(s) : ~IsSpace(s[i])}
    IN IF keep = {} THEN <<>>
       ELSE SubSeq(s, CHOOSE i \in keep : \A j \in keep : i <= j,
                      CHOOSE i \in keep : \A j \in keep : j <= i)

\* _combine_segments as it would be with "".join(text_parts)
combine_without_space(segments) ==
    LET parts == SelectSeq([i \in 1..Len(segments) |-> strip(segments[i].text)],
                           LAMBDA t : t # <<>>)
        RECURSIVE glue(_)
        glue(ps) == IF ps = <<>> THEN <<>> ELSE Head(ps) \o glue(Tail(ps))
    IN glue(parts)

\* _combine_segments: the stripped, non-empty texts joined by one space
combine_segments(segments) ==
    join(SelectSeq([i \in 1..Len(segments) |-> strip(segments[i].text)],
                   LAMBDA t : t # <<>>))

IsPunct(c) == c \in {".", "!", "?"}

\* re.split(r'[.!?]+', text), stripped, the empty pieces dropped: the pieces
\* are the maximal runs of characters that are not '.', '!' or '?'
RECURSIVE pieces_from(_, _)
pieces_from(text, from) ==
    LET rest == {i \in from..Len(text) : ~IsPunct(text[i])}
    IN IF rest = {} THEN <<>>
       ELSE LET first == CHOOSE i \in rest : \A j \in rest : i <= j
                stops == {i \in first..Len(text) : IsPunct(text[i])}
                last  == IF stops = {} THEN Len(text)
                         ELSE (CHOOSE i \in stops : \A j \in stops : i <= j) - 1
            IN <<strip(SubSeq(text, first, last))>> \o pieces_from(text, last + 1)

split_into_sentences(text) ==
    SelectSeq(pieces_from(text, 1), LAMBDA t : t # <<>>)

\* sum(len(seg.text) for seg in segments)
RECURSIVE total_text_length(_)
total_text_length(segments) ==
    IF segments = <<>> THEN 0
    ELSE Len(Head(segments).text) + total_text_length(Tail(segments))

avg_chunk_size == 400

\* segments[0] of an empty list raises IndexError: no timestamps
IndexError == [start |-> 0, end |-> 0, den |-> 0]

\* find_timestamps as it would be without the clamp of end_time to video_end
find_timestamps_unclamped(text, segments, chunk_index) ==
    LET total == total_text_length(segments)
        den   == 20 * total
        video_start == segments[1].start
        video_end   == segments[Len(segments)].end
        video_duration == video_end - video_start
        ratio == IF chunk_index * avg_chunk_size < total
                 THEN chunk_index * avg_chunk_size * 20
                 ELSE 19 * total
        raw   == Len(text) * 20 * video_duration
        chunk_duration == IF raw < 10 * den THEN 10 * den
                          ELSE IF raw > 120 * den THEN 120 * den ELSE raw
        start0 == video_start * den + ratio * video_duration
        end0   == start0 + chunk_duration
        start1 == IF chunk_index > 0 /\ start0 = 0 THEN 2 * total ELSE start0
        end1   == end0
        start2 == IF start1 > video_end * den
                  THEN video_end * den - chunk_duration ELSE start1
    IN [start |-> start2, end |-> end1, den |-> den]

\* _find_timestamps_for_text. Times are kept exactly, as multiples of
\* 1 / den seconds with den = 20 * total_text_length: position_ratio is
\* chunk_index * 400 / total or 19 / 20, 0.1 is 2 * total / den.
find_timestamps_for_text(text, segments, chunk_index) ==
    IF segments = <<>> THEN IndexError ELSE
    LET total == total_text_length(segments)
        den   == 20 * total
        video_start == segments[1].start
        video_end   == segments[Len(segments)].end
        video_duration == video_end - video_start
        \* position_ratio * den
        ratio == IF chunk_index * avg_chunk_size < total
                 THEN chunk_index * avg_chunk_size * 20
                 ELSE 19 * total
        \* chunk_length / total_text_length * video_duration, in 1 / den
        raw   == Len(text) * 20 * video_duration
        chunk_duration == IF raw < 10 * den THEN 10 * den
                          ELSE IF raw > 120 * den THEN 120 * den ELSE raw
        start0 == video_start * den + ratio * video_duration
        end0   == start0 + chunk_duration
        start1 == IF chunk_index > 0 /\ start0 = 0 THEN 2 * total ELSE start0
        end1   == IF end0 > video_end * den THEN video_end * den ELSE end0
        start2 == IF start1 > video_end * den
                  THEN video_end * den - chunk_duration ELSE start1
    IN [start |-> start2, end |-> end1, den |-> den]

\* _create_chunk_from_text
create_chunk_from_text(text, segments, video_id, chunk_index) ==
    LET t == find_timestamps_for_text(text, segments, chunk_index)
    IN [text |-> text,
        start_timestamp |-> [num |-> t.start, den |-> t.den],
        end_timestamp |-> [num |-> t.end, den |-> t.den],
        chunk_index |-> chunk_index,
        video_id |-> video_id]

\* _get_overlap_text: sentences taken from the end of the chunk while
\* len(overlap_text) + len(sentence) <= overlap, then stripped
RECURSIVE overlap_loop(_, _, _, _)
overlap_loop(chunk, k, overlap_text, overlap) ==
    IF k = 0 THEN overlap_text
    ELSE CHOOSE out \in
            {IF Len(t) + Len(chunk[k]) <= overlap
             THEN overlap_loop(chunk, k - 1, chunk[k] \o <<" ">> \o t, overlap)
             ELSE t : t \in {overlap_text}} : TRUE

\* get_overlap_text as it would be if the test counted the lengths of the
\* sentences only, without the spaces that separate them
RECURSIVE overlap_loop_unspaced(_, _, _, _, _)
overlap_loop_unspaced(chunk, k, overlap_text, used, overlap) ==
    IF k = 0 THEN overlap_text
    ELSE CHOOSE out \in
            {IF used + Len(chunk[k]) <= overlap
             THEN overlap_loop_unspaced(chunk, k - 1, chunk[k] \o <<" ">> \o t,
                                        used + Len(chunk[k]), overlap)
             ELSE t : t \in {overlap_text}} : TRUE

get_overlap_text_unspaced(chunk, overlap) ==
    strip(overlap_loop_unspaced(chunk, Len(chunk), <<>>, 0, overlap))

get_overlap_text(chunk, overlap) == strip(overlap_loop(chunk, Len(chunk), <<>>, overlap))

\* the loop variables of the strategies
LoopStart ==
    [chunks |-> <<>>, current_chunk |-> <<>>, current_length |-> 0,
     chunk_index |-> 0, current_speaker |-> "None"]

\* Close as it would be if every closed chunk were emitted
CloseUnfiltered(st, cfg, segments, video_id) ==
    [st EXCEPT !.chunks = Append(@, create_chunk_from_text(join(st.current_chunk),
                                        segments, video_id, st.chunk_index)),
               !.chunk_index = @ + 1]

\* Close as it would be if chunk_index were incremented for a discarded chunk
CloseCounting(st, cfg, segments, video_id) ==
    LET chunk_text == join(st.current_chunk)
    IN IF Len(chunk_text) >= cfg.min_chunk_size
       THEN [st EXCEPT !.chunks = Append(@, create_chunk_from_text(chunk_text,
                                              segments, video_id, st.chunk_index)),
                       !.chunk_index = @ + 1]
       ELSE [st EXCEPT !.chunk_index = @ + 1]

\* chunk_text = " ".join(current_chunk); emitted with the current index if it
\* has min_chunk_size characters, else dropped
Close(st, cfg, segments, video_id) ==
    LET chunk_text == join(st.current_chunk)
    IN IF Len(chunk_text) >= cfg.min_chunk_size
       THEN [st EXCEPT !.chunks = Append(@, create_chunk_from_text(chunk_text,
                                              segments, video_id, st.chunk_index)),
                       !.chunk_index = @ + 1]
       ELSE st

\* one iteration of the for loop of _semantic_chunking
semantic_step(st, sentence, cfg, segments, video_id) ==
    LET sentence_length == Len(sentence)
        overlap_text == get_overlap_text(st.current_chunk, cfg.overlap)
        closed ==
            IF st.current_length + sentence_length > cfg.max_chunk_size
               /\ st.current_chunk # <<>>
            THEN IF cfg.overlap > 0
                 THEN [Close(st, cfg, segments, video_id) EXCEPT
                          !.current_chunk = IF overlap_text # <<>>
                                            THEN <<overlap_text>> ELSE <<>>,
                          !.current_length = Len(overlap_text)]
                 ELSE [Close(st, cfg, segments, video_id) EXCEPT
                          !.current_chunk = <<>>, !.current_length = 0]
            ELSE st
    IN [closed EXCEPT !.current_chunk = Append(@, sentence),
                      !.current_length = @ + sentence_length]

\* the for loop of _semantic_chunking; the loop variables are bound to
\* their value before each iteration
RECURSIVE semantic_loop(_, _, _, _, _)
semantic_loop(sentences, st, cfg, segments, video_id) ==
    IF sentences = <<>> THEN st
    ELSE CHOOSE out \in
            {semantic_loop(Tail(sentences),
                           semantic_step(s, Head(sentences), cfg, segments, video_id),
                           cfg, segments, video_id) : s \in {st}} : TRUE

\* the final chunk of _semantic_chunking and of _video_optimized_chunking
FinalChunk(st, cfg, segments, video_id) ==
    IF st.current_chunk # <<>> THEN Close(st, cfg, segments, video_id).chunks
    ELSE st.chunks

semantic_chunking(text, segments, video_id, cfg) ==
    FinalChunk(semantic_loop(split_into_sentences(text), LoopStart, cfg, segments, video_id),
               cfg, segments, video_id)

\* _recursive_chunking: windows text[i:i + max_chunk_size] for
\* i in range(0, len(text), max_chunk_size - overlap), overlap < max_chunk_size
RECURSIVE recursive_loop(_, _, _, _, _, _)
recursive_loop(text, i, st, cfg, segments, video_id) ==
    IF i >= Len(text) THEN st.chunks
    ELSE LET chunk_text == SubSeq(text, i + 1, Min(i + cfg.max_chunk_size, Len(text)))
             step(s) ==
                 IF Len(chunk_text) >= cfg.min_chunk_size
                 THEN [s EXCEPT !.chunks = Append(@, create_chunk_from_text(chunk_text,
                                                segments, video_id, s.chunk_index)),
                                !.chunk_index = @ + 1]
                 ELSE s
         IN CHOOSE out \in
               {recursive_loop(text, i + cfg.max_chunk_size - cfg.overlap, step(s),
                               cfg, segments, video_id) : s \in {st}} : TRUE

recursive_chunking(text, segments, video_id, cfg) ==
    recursive_loop(text, 0, LoopStart, cfg, segments, video_id)

\* video_optimized_step as it would be without the test for a speaker change
video_optimized_step_by_size(st, segment, cfg, segments, video_id) ==
    LET segment_text == strip(segment.text)
        st2 == IF st.current_length + Len(segment_text) > cfg.max_chunk_size
                  /\ st.current_chunk # <<>>
               THEN [Close(st, cfg, segments, video_id) EXCEPT
                        !.current_chunk = <<>>, !.current_length = 0]
               ELSE st
    IN IF segment_text = <<>> THEN st
       ELSE [st2 EXCEPT !.current_chunk = Append(@, segment_text),
                        !.current_length = @ + Len(segment_text),
                        !.current_speaker = segment.speaker]

\* one iteration of the for loop of _video_optimized_chunking
video_optimized_step(st, segment, cfg, segments, video_id) ==
    LET segment_text == strip(segment.text)
        \* speaker change
        st1 == IF st.current_speaker # segment.speaker /\ st.current_chunk # <<>>
               THEN [Close(st, cfg, segments, video_id) EXCEPT
                        !.current_chunk = <<>>, !.current_length = 0]
               ELSE st
        \* size limit
        st2 == IF st1.current_length + Len(segment_text) > cfg.max_chunk_size
                  /\ st1.current_chunk # <<>>
               THEN [Close(st1, cfg, segments, video_id) EXCEPT
                        !.current_chunk = <<>>, !.current_length = 0]
               ELSE st1
    IN IF segment_text = <<>> THEN st
       ELSE [st2 EXCEPT !.current_chunk = Append(@, segment_text),
                        !.current_length = @ + Len(segment_text),
                        !.current_speaker = segment.speaker]

\* the for loop of _video_optimized_chunking
RECURSIVE video_optimized_loop(_, _, _, _, _)
video_optimized_loop(rest, st, cfg, segments, video_id) ==
    IF rest = <<>> THEN st
    ELSE CHOOSE out \in
            {video_optimized_loop(Tail(rest),
                                  video_optimized_step(s, Head(rest), cfg, segments, video_id),
                                  cfg, segments, video_id) : s \in {st}} : TRUE

video_optimized_chunking(text, segments, video_id, cfg) ==
    FinalChunk(video_optimized_loop(segments, LoopStart, cfg, segments, video_id),
               cfg, segments, video_id)

\* _fixed_chunking: windows of max_chunk_size characters, none dropped
RECURSIVE fixed_loop(_, _, _, _, _, _)
fixed_loop(text, i, st, cfg, segments, video_id) ==
    IF i >= Len(text) THEN st.chunks
    ELSE LET chunk_text == SubSeq(text, i + 1, Min(i + cfg.max_chunk_size, Len(text)))
             step(s) ==
                 [s EXCEPT !.chunks = Append(@, create_chunk_from_text(chunk_text,
                                                segments, video_id, s.chunk_index)),
                           !.chunk_index = @ + 1]
         IN CHOOSE out \in
               {fixed_loop(text, i + cfg.max_chunk_size, step(s),
                           cfg, segments, video_id) : s \in {st}} : TRUE

\* fixed_chunking as it would be if the first window were taken before the
\* length of the text is tested
fixed_chunking_first_window(text, segments, video_id, cfg) ==
    IF text = <<>> THEN <<create_chunk_from_text(text, segments, video_id, 0)>>
    ELSE fixed_loop(text, 0, LoopStart, cfg, segments, video_id)

fixed_chunking(text, segments, video_id, cfg) ==
    fixed_loop(text, 0, LoopStart, cfg, segments, video_id)

\* chunk_transcription: the strategy is chosen by strategy_config.name
chunk_transcription(segments, video_id, cfg) ==
    LET combined_text == combine_segments(segments)
    IN IF cfg.name = "semantic"
       THEN semantic_chunking(combined_text, segments, video_id, cfg)
       ELSE IF cfg.name = "recursive"
       THEN recursive_chunking(combined_text, segments, video_id, cfg)
       ELSE IF cfg.name = "video_optimized"
       THEN video_optimized_chunking(combined_text, segments, video_id, cfg)
       ELSE fixed_chunking(combined_text, segments, video_id, cfg)

\* ------------------------------------------------------------------ state
VARIABLES
    store,       \* the rows of the table video_chunks
    nextId,      \* the next fresh record id
    calls,       \* number of ingestion calls started
    work,        \* calls started plus chunks handed over
    pc,          \* per process: position in process_video_chunks
    chunks,      \* per process: the argument of the call
    sent,        \* per process: the texts handed to the embedding provider
    embeddings,  \* per process: the embeddings returned by the provider
    todo,        \* per process: video ids the existence lookup has yet to visit
    cur,         \* per process: the video id of the current lookup iteration
    existing,    \* per process: the set existing_chunks
    records,     \* per process: the records prepared for insertion
    pos,         \* per process: the loop variable i of the batch loop
    result,      \* per process: "none", "True", "False" or "raised"
    log,         \* per process: the external requests of this call, in order
    store0,      \* per process: the table when the call started
    last,        \* per process: the previous call: its argument, requests and
                 \* result, and the number of rows before and after it
    sargs,       \* the arguments of the latest search
    sstatus,     \* "none", "returned" or "failed" (the fetch raised)
    sresult,     \* what the latest search returned
    cargs,       \* the arguments of the latest chunk_transcription call
    cstatus,     \* "none", "returned" or "raised"
    cresult,     \* the chunks the latest chunk_transcription call returned
    video_files, \* the argument of the run of the batch driver
    di,          \* the loop variable i of the driver, 0 outside a run
    dstage,      \* the position of the driver in _process_single_video
    dsegments,   \* the segments of the transcription of the current video
    dcall,       \* the value of calls when the driver reached the storing stage
    dlog,        \* the result of _process_single_video for each video so far
    stats        \* the counters self.stats of the driver

ivars == <<store, nextId, calls, work, pc, chunks, sent, embeddings, todo, cur, existing,
           records, pos, result, log, store0, last>>

svars == <<sargs, sstatus, sresult>>

cvars == <<cargs, cstatus, cresult>>

dvars == <<video_files, di, dstage, dsegments, dcall, dlog, stats>>

vars == <<ivars, svars, cvars, dvars>>

NoCall == [chunks |-> <<>>, log |-> <<>>, result |-> "none", before |-> 0, after |-> 0]

InitIngest ==
    /\ store = <<>>
    /\ nextId = 1
    /\ calls = 0
    /\ work = 0
    /\ pc = [p \in Procs |-> "idle"]
    /\ chunks = [p \in Procs |-> <<>>]
    /\ sent = [p \in Procs |-> <<>>]
    /\ embeddings = [p \in Procs |-> <<>>]
    /\ todo = [p \in Procs |-> {}]
    /\ cur = [p \in Procs |-> "v1"]
    /\ existing = [p \in Procs |-> {}]
    /\ records = [p \in Procs |-> <<>>]
    /\ pos = [p \in Procs |-> 0]
    /\ result = [p \in Procs |-> "none"]
    /\ log = [p \in Procs |-> <<>>]
    /\ store0 = [p \in Procs |-> <<>>]
    /\ last = [p \in Procs |-> NoCall]

Ev(op, ok) == [op |-> op, ok |-> ok]

\* ------------------------------------------------- process_video_chunks
\* the caller invokes process_video_chunks(cl)
Call(p, cl) ==
    /\ pc[p] = "idle"
    /\ calls' = calls + 1
    /\ work' = work + 1 + Len(cl)
    /\ pc' = [pc EXCEPT ![p] = "embed"]
    /\ chunks' = [chunks EXCEPT ![p] = cl]
    /\ sent' = [sent EXCEPT ![p] = <<>>]
    /\ embeddings' = [embeddings EXCEPT ![p] = <<>>]
    /\ todo' = [todo EXCEPT ![p] = {}]
    /\ existing' = [existing EXCEPT ![p] = {}]
    /\ records' = [records EXCEPT ![p] = <<>>]
    /\ pos' = [pos EXCEPT ![p] = 0]
    /\ result' = [result EXCEPT ![p] = "none"]
    /\ log' = [log EXCEPT ![p] = <<>>]
    /\ store0' = [store0 EXCEPT ![p] = store]
    /\ UNCHANGED <<store, nextId, cur, last, svars, cvars, dvars>>

\* EmbeddingRaised as it would be without the handler of process_video_chunks
EmbeddingReraised == "raised"

\* what process_video_chunks does with an exception of the embedding call
EmbeddingRaised == "False"

\* NothingNew as it would be if an empty new_chunks counted as a failure
NothingNewIsFailure == "False"

\* insert_chunks when nothing is left to insert
NothingNew == "True"

\* insert_chunks from the return of _check_existing_chunks (with the set ex)
\* to the first insert request
Prepare(p, ex, embs) ==
    LET new == FilterNew(chunks[p], embs, ex)
    IN /\ existing' = [existing EXCEPT ![p] = ex]
       /\ records' = [records EXCEPT ![p] = MakeRecords(new, nextId)]
       /\ nextId' = nextId + Len(new)
       /\ pos' = [pos EXCEPT ![p] = 0]
       /\ IF new = <<>>
          THEN /\ result' = [result EXCEPT ![p] = NothingNew]
               /\ pc' = [pc EXCEPT ![p] = "done"]
          ELSE /\ result' = result
               /\ pc' = [pc EXCEPT ![p] = "insert"]

\* generate_embeddings_batch returns; insert_chunks runs up to its first
\* request (_check_existing_chunks returns set() for an empty list)
EmbedOk(p) ==
    /\ pc[p] = "embed"
    /\ sent' = [sent EXCEPT ![p] = TextsOf(chunks[p])]
    /\ embeddings' = [embeddings EXCEPT ![p] = generate_embeddings_batch(TextsOf(chunks[p]))]
    /\ log' = [log EXCEPT ![p] = Append(@, Ev("embed", TRUE))]
    /\ todo' = [todo EXCEPT ![p] = {chunks[p][i].video_id : i \in 1..Len(chunks[p])}]
    /\ IF chunks[p] = <<>>
       THEN Prepare(p, {}, embeddings'[p])
       ELSE /\ pc' = [pc EXCEPT ![p] = "check"]
            /\ UNCHANGED <<nextId, existing, records, pos, result>>
    /\ UNCHANGED <<store, calls, work, chunks, cur, store0, last, svars, cvars, dvars>>

\* generate_embeddings_batch re-raises; the handler of process_video_chunks returns
EmbedFail(p) ==
    /\ pc[p] = "embed"
    /\ sent' = [sent EXCEPT ![p] = TextsOf(chunks[p])]
    /\ log' = [log EXCEPT ![p] = Append(@, Ev("embed", FALSE))]
    /\ result' = [result EXCEPT ![p] = EmbeddingRaised]
    /\ pc' = [pc EXCEPT ![p] = "done"]
    /\ UNCHANGED <<store, nextId, calls, work, chunks, embeddings, todo, cur, existing,
                   records, pos, store0, last, svars, cvars, dvars>>

\* tier 1: select video_id where video_id = v limit 1; without a row the
\* loop goes on to the next video, and after the last video insert_chunks
\* runs up to its first insert request
Tier1Ok(p) ==
    /\ pc[p] = "check"
    /\ log' = [log EXCEPT ![p] = Append(@, Ev("exists", TRUE))]
    /\ \E v \in todo[p] :
         /\ cur' = [cur EXCEPT ![p] = v]
         /\ todo' = [todo EXCEPT ![p] = @ \ {v}]
         /\ IF RowsOf(store, v) # <<>>
            THEN /\ pc' = [pc EXCEPT ![p] = "tier2"]
                 /\ UNCHANGED <<nextId, existing, records, pos, result>>
            ELSE IF todo[p] = {v}
                 THEN Prepare(p, existing[p], embeddings[p])
                 ELSE UNCHANGED <<nextId, existing, records, pos, result, pc>>
    /\ UNCHANGED <<store, calls, work, chunks, sent, embeddings, store0, last,
                   svars, cvars, dvars>>

\* tier 2: select video_id, chunk_index, chunk_text where video_id = cur
Tier2Ok(p) ==
    /\ pc[p] = "tier2"
    /\ log' = [log EXCEPT ![p] = Append(@, Ev("fetch", TRUE))]
    /\ LET ex == existing[p] \cup FoundKeys(RowsOf(store, cur[p]), chunks[p], cur[p])
       IN IF todo[p] = {}
          THEN Prepare(p, ex, embeddings[p])
          ELSE /\ existing' = [existing EXCEPT ![p] = ex]
               /\ pc' = [pc EXCEPT ![p] = "check"]
               /\ UNCHANGED <<nextId, records, pos, result>>
    /\ UNCHANGED <<store, calls, work, chunks, sent, embeddings, todo, cur, store0, last,
                   svars, cvars, dvars>>

\* LookupFail as it would be if the exception reached the handler of
\* insert_chunks, which returns False
LookupFailAborts(p) ==
    /\ \/ /\ pc[p] = "check"
          /\ log' = [log EXCEPT ![p] = Append(@, Ev("exists", FALSE))]
       \/ /\ pc[p] = "tier2"
          /\ log' = [log EXCEPT ![p] = Append(@, Ev("fetch", FALSE))]
    /\ todo' = [todo EXCEPT ![p] = {}]
    /\ result' = [result EXCEPT ![p] = "False"]
    /\ pc' = [pc EXCEPT ![p] = "done"]
    /\ UNCHANGED <<store, nextId, calls, work, chunks, sent, embeddings, cur, existing,
                   records, pos, store0, last, svars, cvars, dvars>>

\* a request of _check_existing_chunks raises: the lookup returns set()
LookupFail(p) ==
    /\ \/ /\ pc[p] = "check"
          /\ log' = [log EXCEPT ![p] = Append(@, Ev("exists", FALSE))]
       \/ /\ pc[p] = "tier2"
          /\ log' = [log EXCEPT ![p] = Append(@, Ev("fetch", FALSE))]
    /\ todo' = [todo EXCEPT ![p] = {}]
    /\ Prepare(p, {}, embeddings[p])
    /\ UNCHANGED <<store, calls, work, chunks, sent, embeddings, cur, store0, last,
                   svars, cvars, dvars>>

\* InsertOk as it would be with an upsert on (video_id, chunk_index): a row
\* with the key of a new record is replaced
InsertOkUpsert(p) ==
    /\ pc[p] = "insert"
    /\ store' = SelectSeq(store,
                      LAMBDA r : \A k \in 1..Len(Batch(records[p], pos[p])) :
                          \/ Batch(records[p], pos[p])[k].video_id # r.video_id
                          \/ Batch(records[p], pos[p])[k].chunk_index # r.chunk_index)
                 \o Batch(records[p], pos[p])
    /\ log' = [log EXCEPT ![p] = Append(@, Ev("insert", TRUE))]
    /\ pos' = [pos EXCEPT ![p] = @ + batch_size]
    /\ IF pos[p] + batch_size >= Len(records[p])
       THEN /\ result' = [result EXCEPT ![p] = "True"]
            /\ pc' = [pc EXCEPT ![p] = "done"]
       ELSE UNCHANGED <<result, pc>>
    /\ UNCHANGED <<nextId, calls, work, chunks, sent, embeddings, todo, cur, existing,
                   records, store0, last, svars, cvars, dvars>>

\* InsertOk as it would be with a uniqueness constraint on
\* (video_id, content hash) that drops the rows already present
InsertOkUnique(p) ==
    /\ pc[p] = "insert"
    /\ store' = store \o SelectSeq(Batch(records[p], pos[p]),
                      LAMBDA r : \A k \in 1..Len(store) :
                          \/ store[k].video_id # r.video_id
                          \/ get_content_hash(store[k].chunk_text)
                                # get_content_hash(r.chunk_text))
    /\ log' = [log EXCEPT ![p] = Append(@, Ev("insert", TRUE))]
    /\ pos' = [pos EXCEPT ![p] = @ + batch_size]
    /\ IF pos[p] + batch_size >= Len(records[p])
       THEN /\ result' = [result EXCEPT ![p] = "True"]
            /\ pc' = [pc EXCEPT ![p] = "done"]
       ELSE UNCHANGED <<result, pc>>
    /\ UNCHANGED <<nextId, calls, work, chunks, sent, embeddings, todo, cur, existing,
                   records, store0, last, svars, cvars, dvars>>

\* the insert request of records[pos:pos + batch_size] succeeds
InsertOk(p) ==
    /\ pc[p] = "insert"
    /\ store' = store \o Batch(records[p], pos[p])
    /\ log' = [log EXCEPT ![p] = Append(@, Ev("insert", TRUE))]
    /\ pos' = [pos EXCEPT ![p] = @ + batch_size]
    /\ IF pos[p] + batch_size >= Len(records[p])
       THEN /\ result' = [result EXCEPT ![p] = "True"]
            /\ pc' = [pc EXCEPT ![p] = "done"]
       ELSE UNCHANGED <<result, pc>>
    /\ UNCHANGED <<nextId, calls, work, chunks, sent, embeddings, todo, cur, existing,
                   records, store0, last, svars, cvars, dvars>>

\* InsertFail as it would be if the exception were caught inside the batch
\* loop: the loop goes on with the next batch
InsertFailContinues(p) ==
    /\ pc[p] = "insert"
    /\ log' = [log EXCEPT ![p] = Append(@, Ev("insert", FALSE))]
    /\ pos' = [pos EXCEPT ![p] = @ + batch_size]
    /\ IF pos[p] + batch_size >= Len(records[p])
       THEN /\ result' = [result EXCEPT ![p] = "True"]
            /\ pc' = [pc EXCEPT ![p] = "done"]
       ELSE UNCHANGED <<result, pc>>
    /\ UNCHANGED <<store, nextId, calls, work, chunks, sent, embeddings, todo, cur,
                   existing, records, store0, last, svars, cvars, dvars>>

\* the insert request raises: the handler of insert_chunks returns False
InsertFail(p) ==
    /\ pc[p] = "insert"
    /\ log' = [log EXCEPT ![p] = Append(@, Ev("insert", FALSE))]
    /\ result' = [result EXCEPT ![p] = "False"]
    /\ pc' = [pc EXCEPT ![p] = "done"]
    /\ UNCHANGED <<store, nextId, calls, work, chunks, sent, embeddings, todo, cur, existing,
                   records, pos, store0, last, svars, cvars, dvars>>

\* process_video_chunks returns to its caller
Return(p) ==
    /\ pc[p] = "done"
    /\ pc' = [pc EXCEPT ![p] = "idle"]
    /\ last' = [last EXCEPT ![p] =
                  [chunks |-> chunks[p], log |-> log[p], result |-> result[p],
                   before |-> Len(store0[p]), after |-> Len(store)]]
    /\ UNCHANGED <<store, nextId, calls, work, chunks, sent, embeddings, todo, cur, existing,
                   records, pos, result, log, store0, svars, cvars, dvars>>

\* the chunk lists of one video with at most n chunks
ChunkLists(n) ==
    UNION {{MkChunks(v, ts) : v \in VideoIds, ts \in [1..k -> Texts]} : k \in 0..n}

\* a single writer ingesting short chunk lists
Next ==
    \/ \E cl \in ChunkLists(MaxWork - work - 1) : Call(1, cl)
    \/ EmbedOk(1)
    \/ EmbedFail(1)
    \/ Tier1Ok(1)
    \/ Tier2Ok(1)
    \/ LookupFail(1)
    \/ InsertOk(1)
    \/ InsertFail(1)
    \/ Return(1)

\* ------------------------------------------------- search_similar_chunks
NoArgs == [query_embedding |-> <<>>, video_id |-> NoVideo, limit |-> 0]

InitSearch ==
    /\ sargs = NoArgs
    /\ sstatus = "none"
    /\ sresult = <<>>

\* the fetch succeeds and the ranking is returned
Search(q, v, n) ==
    /\ sstatus = "none"
    /\ sargs' = [query_embedding |-> q, video_id |-> v, limit |-> n]
    /\ sstatus' = "returned"
    /\ sresult' = search_similar_chunks(store, q, v, n)
    /\ UNCHANGED <<ivars, cvars, dvars>>

\* search_video_content: generate_embedding raises, the handler returns []
QueryEmbedFail ==
    /\ sstatus = "none"
    /\ sstatus' = "no_query"
    /\ sresult' = <<>>
    /\ UNCHANGED <<ivars, sargs, cvars, dvars>>

\* query.execute() raises: the handler returns []
SearchFail ==
    /\ sstatus = "none"
    /\ sstatus' = "failed"
    /\ sresult' = <<>>
    /\ UNCHANGED <<ivars, sargs, cvars, dvars>>

\* --------------------------------------------------- chunk_transcription
\* CHUNKING_STRATEGIES of config/chunking_config.py
Strategy(name, max, min, overlap) ==
    [name |-> name, max_chunk_size |-> max, min_chunk_size |-> min, overlap |-> overlap]

CHUNKING_STRATEGIES ==
    {Strategy("semantic", 400, 100, 50), Strategy("recursive", 500, 100, 50),
     Strategy("fixed", 400, 400, 0), Strategy("video_optimized", 600, 150, 75)}

StrategyNames == {"semantic", "recursive", "fixed", "video_optimized"}

\* the same strategies with sizes of a few characters; overlap < max_chunk_size
\* where the strategy steps by max_chunk_size - overlap
SmallStrategies ==
    {Strategy(n, max, min, ov) :
        n \in {"semantic", "recursive"}, max \in {3, 4}, min \in {0, 2}, ov \in {0, 2}}
    \cup {Strategy("semantic", max, min, ov) : max \in {3, 4}, min \in {0, 2}, ov \in {3, 4}}
    \cup {Strategy("fixed", max, max, 0) : max \in {3, 4}}

\* _video_optimized_chunking does not read overlap
SmallSpeakerStrategies ==
    {Strategy("video_optimized", max, min, 2) : max \in {3, 4}, min \in {0, 2}}

\* TranscriptionSegment
Segment(start, end, text, speaker) ==
    [start |-> start, end |-> end, text |-> text, speaker |-> speaker]

Rep(c, n) == [i \in 1..n |-> c]

SegTexts ==
    {<<"a">>, <<"a", "a", ".">>, <<" ">>, <<"a", ".", " ", "a", "a", "a">>, Rep("a", 6)}

LongTexts ==
    {Rep("a", 300) \o <<".">>, Rep("a", 460), Rep("a", 400),
     Rep("a", 201) \o <<".">> \o Rep("a", 201) \o <<".">>}

Speakers == {"None", "s1"}

\* the texts of the segments that have speakers
SpeakerTexts == {<<"a">>, <<"a", "a", ".">>, <<" ">>}

\* first start and length of the segments: consecutive, start < end
Timings == {<<0, 2>>, <<5, 60>>, <<0, 400>>}

SegmentLists(n, texts, speakers) ==
    {[k \in 1..n |-> Segment(t[1] + (k - 1) * t[2], t[1] + k * t[2], txt[k], sp[k])] :
        txt \in [1..n -> texts], sp \in [1..n -> speakers], t \in Timings}

\* Scenario A of the specification
ScenarioA ==
    <<Segment(0, 10, <<"H", "a", "l", "l", "o", ".">>, "None"),
      Segment(10, 20, <<"W", "i", "e", " ", "g", "e", "h", "t", " ", "e", "s", " ",
                        "d", "i", "r", " ", "h", "e", "u", "t", "e", "?">>, "None")>>

ScenarioAStrategy == Strategy("fixed", 15, 15, 0)

\* one second of video with more than ten times avg_chunk_size characters
DenseSegments == <<Segment(0, 1, Rep("a", 10 * avg_chunk_size + 1), "None")>>

InitChunk ==
    /\ cargs = [segments |-> <<>>, video_id |-> NoVideo, strategy |-> ScenarioAStrategy]
    /\ cstatus = "none"
    /\ cresult = <<>>

\* the call raises: _find_timestamps_for_text raised for some chunk
Raises(chunk_list) ==
    \E k \in 1..Len(chunk_list) : chunk_list[k].start_timestamp.den = IndexError.den

\* one call of chunk_transcription: it returns its chunks or raises
ChunkCall(segments, cfg) ==
    /\ cstatus = "none"
    /\ cargs' = [segments |-> segments, video_id |-> "v1", strategy |-> cfg]
    /\ LET out == chunk_transcription(segments, "v1", cfg)
       IN IF Raises(out)
          THEN cstatus' = "raised" /\ cresult' = <<>>
          ELSE cstatus' = "returned" /\ cresult' = out
    /\ UNCHANGED <<ivars, svars, dvars>>

\* short segments under the small strategies (speakers where the strategy
\* reads them), long segments and a dense segment under the configured
\* strategies, Scenario A
NextChunk ==
    \/ /\ cstatus = "none"
       /\ \E n \in 0..MaxSegs : \E segments \in SegmentLists(n, SegTexts, {"None"}) :
             \E cfg \in SmallStrategies : ChunkCall(segments, cfg)
    \/ /\ cstatus = "none"
       /\ \E n \in 0..MaxSegs : \E segments \in SegmentLists(n, SpeakerTexts, Speakers) :
             \E cfg \in SmallSpeakerStrategies : ChunkCall(segments, cfg)
    \/ /\ cstatus = "none"
       /\ \E n \in 1..MaxLongSegs : \E segments \in SegmentLists(n, LongTexts, {"None"}) :
             \E cfg \in CHUNKING_STRATEGIES : ChunkCall(segments, cfg)
    \/ /\ cstatus = "none"
       /\ \E cfg \in CHUNKING_STRATEGIES : ChunkCall(DenseSegments, cfg)
    \/ /\ cstatus = "none"
       /\ ChunkCall(ScenarioA, ScenarioAStrategy)

\* ------------------------------------------------------ batch driver
NoStats ==
    [processed_videos |-> 0, skipped_videos |-> 0, failed_videos |-> 0,
     total_videos |-> 0, total_chunks |-> 0]

InitDriver ==
    /\ video_files = <<>>
    /\ di = 0
    /\ dstage = "idle"
    /\ dsegments = <<>>
    /\ dcall = 0
    /\ dlog = <<>>
    /\ stats = NoStats

\* the argument of a run: video files, each standing for the video id that
\* _generate_video_id computes from its content
FileLists == UNION {[1..n -> VideoIds] : n \in 0..MaxVideos}

\* what transcribe_video returns: no segment, one segment that makes one
\* chunk, or two segments that make two chunks
Transcripts ==
    {<<>>,
     <<Segment(5, 65, Rep("a", 120) \o <<".">>, "None")>>,
     <<Segment(5, 65, Rep("a", 300) \o <<".">>, "None"),
       Segment(65, 125, Rep("a", 120) \o <<".">>, "None")>>}

\* BatchVideoProcessor.chunker is SemanticChunker(strategy="semantic")
DriverStrategy == Strategy("semantic", 400, 100, 50)

CurrentVideo == video_files[di]

DriverChunks == chunk_transcription(dsegments, CurrentVideo, DriverStrategy)

StatKey(r) ==
    IF r = "processed" THEN "processed_videos"
    ELSE IF r = "skipped" THEN "skipped_videos" ELSE "failed_videos"

\* Counted as it would be if a failed video ended the loop
CountedStopsOnFailure(r, at) ==
    /\ dlog' = Append(dlog, [video |-> CurrentVideo, result |-> r, at |-> at])
    /\ IF di < Len(video_files) /\ r # "failed"
       THEN /\ di' = di + 1
            /\ dstage' = "check"
            /\ stats' = [stats EXCEPT ![StatKey(r)] = @ + 1]
       ELSE /\ di' = 0
            /\ dstage' = "done"
            /\ stats' = [stats EXCEPT ![StatKey(r)] = @ + 1,
                                      !.total_videos = Len(video_files)]

\* the body of the for loop after _process_single_video has returned r: the
\* counter of r is incremented and the loop goes on; after the last video
\* total_videos is set and the run returns stats
Counted(r, at) ==
    /\ dlog' = Append(dlog, [video |-> CurrentVideo, result |-> r, at |-> at])
    /\ IF di < Len(video_files)
       THEN /\ di' = di + 1
            /\ dstage' = "check"
            /\ stats' = [stats EXCEPT ![StatKey(r)] = @ + 1]
       ELSE /\ di' = 0
            /\ dstage' = "done"
            /\ stats' = [stats EXCEPT ![StatKey(r)] = @ + 1,
                                      !.total_videos = Len(video_files)]

\* process_video_list(files) on a fresh BatchVideoProcessor
DStart(files) ==
    /\ dstage = "idle"
    /\ video_files' = files
    /\ IF files = <<>>
       THEN di' = 0 /\ dstage' = "done"
       ELSE di' = 1 /\ dstage' = "check"
    /\ UNCHANGED <<dsegments, dcall, dlog, stats, ivars, svars, cvars>>

\* DCheckFound as it would be if the video were processed whatever the
\* existence check finds
DCheckFoundProceeds ==
    /\ dstage = "check"
    /\ RowsOf(store, CurrentVideo) # <<>>
    /\ dstage' = "transcribe"
    /\ UNCHANGED <<video_files, di, dsegments, dcall, dlog, stats, ivars, svars, cvars>>

\* the existence check finds a row of the video: "skipped"
DCheckFound ==
    /\ dstage = "check"
    /\ RowsOf(store, CurrentVideo) # <<>>
    /\ Counted("skipped", "check")
    /\ UNCHANGED <<video_files, dsegments, dcall, ivars, svars, cvars>>

\* the existence check finds no row of the video
DCheckNew ==
    /\ dstage = "check"
    /\ RowsOf(store, CurrentVideo) = <<>>
    /\ dstage' = "transcribe"
    /\ UNCHANGED <<video_files, di, dsegments, dcall, dlog, stats, ivars, svars, cvars>>

\* _generate_video_id or the existence check raises: "failed"
DCheckFail ==
    /\ dstage = "check"
    /\ Counted("failed", "check")
    /\ UNCHANGED <<video_files, dsegments, dcall, ivars, svars, cvars>>

\* transcribe_video returns (and the transcription is saved)
DTranscribeOk(segs) ==
    /\ dstage = "transcribe"
    /\ dsegments' = segs
    /\ dstage' = "chunk"
    /\ UNCHANGED <<video_files, di, dcall, dlog, stats, ivars, svars, cvars>>

\* transcribe_video or _save_transcription raises: "failed"
DTranscribeFail ==
    /\ dstage = "transcribe"
    /\ Counted("failed", "transcribe")
    /\ UNCHANGED <<video_files, dsegments, dcall, ivars, svars, cvars>>

\* chunk_transcription returns and total_chunks is updated
DChunk ==
    /\ dstage = "chunk"
    /\ stats' = [stats EXCEPT !.total_chunks = @ + Len(DriverChunks)]
    /\ dcall' = calls
    /\ dstage' = "store"
    /\ UNCHANGED <<video_files, di, dsegments, dlog, ivars, svars, cvars>>

\* process_video_chunks(chunks) is called
DStore ==
    /\ dstage = "store"
    /\ calls = dcall
    /\ Call(1, DriverChunks)

\* process_video_chunks has returned: "processed" if success else "failed"
DCount ==
    /\ dstage = "store"
    /\ calls = dcall + 1
    /\ pc[1] = "idle"
    /\ Counted(IF last[1].result = "True" THEN "processed" ELSE "failed", "store")
    /\ UNCHANGED <<video_files, dsegments, dcall, ivars, svars, cvars>>

\* one run of the batch driver; the ingestion of each video is the call of
\* process_video_chunks by process 1
NextDriver ==
    \/ \E files \in FileLists : DStart(files)
    \/ DCheckFound
    \/ DCheckNew
    \/ DCheckFail
    \/ \E segs \in Transcripts : DTranscribeOk(segs)
    \/ DTranscribeFail
    \/ DChunk
    \/ DStore
    \/ EmbedOk(1)
    \/ EmbedFail(1)
    \/ Tier1Ok(1)
    \/ LookupFail(1)
    \/ InsertOk(1)
    \/ InsertFail(1)
    \/ Return(1)
    \/ DCount

Init == InitIngest /\ InitSearch /\ InitChunk /\ InitDriver

Spec == Init /\ [][Next]_vars

SpecChunk == Init /\ [][NextChunk]_vars

\* two processes ingest the same chunk list of one video, each once; the
\* steps of the two calls interleave in every order
NextRace ==
    \/ \E p \in Procs : \E cl \in ChunkLists(MaxRaceChunks) :
          /\ cl # <<>>
          /\ last[p] = NoCall
          /\ \A q \in Procs : chunks[q] # <<>> => cl = chunks[q]
          /\ Call(p, cl)
    \/ \E p \in Procs : EmbedOk(p)
    \/ \E p \in Procs : EmbedFail(p)
    \/ \E p \in Procs : Tier1Ok(p)
    \/ \E p \in Procs : Tier2Ok(p)
    \/ \E p \in Procs : LookupFail(p)
    \/ \E p \in Procs : InsertOk(p)
    \/ \E p \in Procs : InsertFail(p)
    \/ \E p \in Procs : Return(p)

SpecRace == Init /\ [][NextRace]_vars

SpecDriver == Init /\ [][NextDriver]_vars

\* the state after an ingestion of a long chunk list of video v1 whose
\* second insert request raised: the first batch is persisted
InitPartial ==
    /\ \E cl \in BigLists :
         LET embs == generate_embeddings_batch(TextsOf(cl))
             recs == MakeRecords(FilterNew(cl, embs, {}), 1)
             lg   == <<Ev("embed", TRUE), Ev("exists", TRUE),
                       Ev("insert", TRUE), Ev("insert", FALSE)>>
         IN /\ store = SubSeq(recs, 1, batch_size)
            /\ nextId = Len(recs) + 1
            /\ work = 1 + Len(cl)
            /\ chunks = [p \in Procs |-> IF p = 1 THEN cl ELSE <<>>]
            /\ sent = [p \in Procs |-> IF p = 1 THEN TextsOf(cl) ELSE <<>>]
            /\ embeddings = [p \in Procs |-> IF p = 1 THEN embs ELSE <<>>]
            /\ records = [p \in Procs |-> IF p = 1 THEN recs ELSE <<>>]
            /\ log = [p \in Procs |-> IF p = 1 THEN lg ELSE <<>>]
            /\ last = [p \in Procs |->
                         IF p = 1
                         THEN [chunks |-> cl, log |-> lg, result |-> "False",
                               before |-> 0, after |-> batch_size]
                         ELSE NoCall]
    /\ calls = 1
    /\ pc = [p \in Procs |-> "idle"]
    /\ todo = [p \in Procs |-> {}]
    /\ cur = [p \in Procs |-> "v1"]
    /\ existing = [p \in Procs |-> {}]
    /\ pos = [p \in Procs |-> IF p = 1 THEN batch_size ELSE 0]
    /\ result = [p \in Procs |-> IF p = 1 THEN "False" ELSE "none"]
    /\ store0 = [p \in Procs |-> <<>>]
    /\ InitSearch
    /\ InitChunk
    /\ InitDriver

\* one run of the batch driver after that ingestion
SpecRerun == InitPartial /\ [][NextDriver]_vars

\* a single writer ingesting enough short chunk lists to store a record of
\* each video and then a list of two chunks
NextCross ==
    \/ \E cl \in ChunkLists(MaxCrossWork - work - 1) : Call(1, cl)
    \/ EmbedOk(1)
    \/ EmbedFail(1)
    \/ Tier1Ok(1)
    \/ Tier2Ok(1)
    \/ LookupFail(1)
    \/ InsertOk(1)
    \/ InsertFail(1)
    \/ Return(1)

SpecCross == Init /\ [][NextCross]_vars

\* a single writer ingesting short chunk lists and one search, made at any
\* point of the ingestion
NextStore ==
    \/ \E cl \in ChunkLists(MaxStoreWork - work - 1) : Call(1, cl)
    \/ EmbedOk(1)
    \/ EmbedFail(1)
    \/ Tier1Ok(1)
    \/ Tier2Ok(1)
    \/ LookupFail(1)
    \/ InsertOk(1)
    \/ InsertFail(1)
    \/ Return(1)
    \/ /\ sstatus = "none"
       /\ \E q \in Queries, v \in VideoIds \cup {NoVideo}, n \in Limits : Search(q, v, n)
    \/ SearchFail
    \/ QueryEmbedFail

SpecStore == Init /\ [][NextStore]_vars

\* a single writer ingesting a chunk list of more than one insert batch and
\* running the same list again
NextBig ==
    \/ \E cl \in BigLists :
          /\ calls < MaxRuns
          /\ calls > 0 => cl = chunks[1]
          /\ Call(1, cl)
    \/ EmbedOk(1)
    \/ EmbedFail(1)
    \/ Tier1Ok(1)
    \/ Tier2Ok(1)
    \/ LookupFail(1)
    \/ InsertOk(1)
    \/ InsertFail(1)
    \/ Return(1)

SpecBig == Init /\ [][NextBig]_vars

\* one search against a table of rows with every form of stored embedding
\* (a search changes nothing that a later search reads)
InitTable ==
    /\ \E n \in 0..MaxRows :
         \E vs \in [1..n -> VideoIds], es \in [1..n -> EmbForms] :
            store = SearchTable(vs, es)
    /\ nextId = Len(store) + 1
    /\ calls = 0
    /\ work = 0
    /\ pc = [p \in Procs |-> "idle"]
    /\ chunks = [p \in Procs |-> <<>>]
    /\ sent = [p \in Procs |-> <<>>]
    /\ embeddings = [p \in Procs |-> <<>>]
    /\ todo = [p \in Procs |-> {}]
    /\ cur = [p \in Procs |-> "v1"]
    /\ existing = [p \in Procs |-> {}]
    /\ records = [p \in Procs |-> <<>>]
    /\ pos = [p \in Procs |-> 0]
    /\ result = [p \in Procs |-> "none"]
    /\ log = [p \in Procs |-> <<>>]
    /\ store0 = [p \in Procs |-> <<>>]
    /\ last = [p \in Procs |-> NoCall]
    /\ InitSearch
    /\ InitChunk
    /\ InitDriver

NextSearch ==
    \/ \E q \in Queries, v \in VideoIds \cup {NoVideo}, n \in Limits : Search(q, v, n)
    \/ SearchFail
    \/ QueryEmbedFail

SpecSearch == InitTable /\ [][NextSearch]_vars

\* ------------------------------------------------------- reading the log
Events(lg, op) == {k \in 1..Len(lg) : lg[k].op = op}

FailedEvents(lg, op) == {k \in 1..Len(lg) : lg[k].op = op /\ ~lg[k].ok}

Clean(lg) == \A k \in 1..Len(lg) : lg[k].ok

\* the candidate chunks[p][i] was filtered out by insert_chunks
Skipped(p, i) ==
    \A k \in 1..Len(records[p]) :
        records[p][k].chunk_index # chunks[p][i].chunk_index

\* insert_chunks of the current call of p has classified its candidates
Classified(p) ==
    /\ pc[p] \in {"insert", "done"}
    /\ Events(log[p], "embed") # {}
    /\ FailedEvents(log[p], "embed") = {}

SameContent(r1, r2) ==
    /\ r1.video_id = r2.video_id
    /\ get_content_hash(r1.chunk_text) = get_content_hash(r2.chunk_text)

Copies(table, c) ==
    {k \in 1..Len(table) :
        /\ table[k].video_id = c.video_id
        /\ table[k].chunk_index = c.chunk_index
        /\ table[k].chunk_text = c.text}

\* -------------------------------------------------------------------- C1
\* C1: running process_video_chunks twice in sequence on the same chunk list
\* of one video, with no embedding or storage failure in either run, leaves
\* the store with as many records as after the first run.
C1_Idempotent ==
    ( /\ pc[1] = "done"
      /\ Clean(log[1])
      /\ last[1].result # "none"
      /\ Clean(last[1].log)
      /\ last[1].chunks = chunks[1] )
    => Len(store) = last[1].after

\* -------------------------------------------------------------------- C2
\* C2: the store of a single writer never holds two records with the same
\* video_id and the same content hash.
C2_NoDuplicateContent ==
    \A i, j \in 1..Len(store) : i < j => ~SameContent(store[i], store[j])

\* -------------------------------------------------------------------- C3
\* C3: when the store holds records of the candidate's video and the lookup
\* succeeded, a candidate is skipped exactly when the content hash of its own
\* text is the content hash of a persisted record of that video.
C3_IndexIndependent ==
    \A i \in 1..Len(chunks[1]) :
        ( /\ Classified(1)
          /\ FailedEvents(log[1], "exists") = {}
          /\ FailedEvents(log[1], "fetch") = {}
          /\ RowsOf(store0[1], chunks[1][i].video_id) # <<>> )
        => ( Skipped(1, i) <=>
               \E k \in 1..Len(store0[1]) :
                   /\ store0[1][k].video_id = chunks[1][i].video_id
                   /\ get_content_hash(store0[1][k].chunk_text)
                        = get_content_hash(chunks[1][i].text) )

\* -------------------------------------------------------------------- C4
\* C4: when insert_chunks classifies every candidate as already persisted,
\* it returns True, sends no insert request and leaves the store unchanged.
C4_AllDuplicateNoOp ==
    ( /\ Classified(1)
      /\ pc[1] = "done"
      /\ records[1] = <<>> )
    => /\ result[1] = "True"
       /\ Events(log[1], "insert") = {}
       /\ store = store0[1]

\* Scenario B: the chunks of a successful ingestion are ingested again
C4_Witness ==
    /\ Classified(1)
    /\ pc[1] = "done"
    /\ records[1] = <<>>
    /\ Len(chunks[1]) = 2
    /\ last[1].chunks = chunks[1]
    /\ last[1].result = "True"
    /\ last[1].after = last[1].before + 2
    /\ result[1] = "True"
    /\ Len(store) = last[1].after

\* -------------------------------------------------------------------- C5
\* C5: if the embedding call raises, process_video_chunks returns False
\* without sending an insert request and the store is unchanged; every
\* persisted record carries the vector computed from its own text.
C5_EmbeddingFailureAtomic ==
    /\ ( pc[1] = "done" /\ FailedEvents(log[1], "embed") # {} )
       => /\ result[1] = "False"
          /\ Events(log[1], "insert") = {}
          /\ store = store0[1]
    /\ \A k \in 1..Len(store) :
          store[k].embedding = EmbeddingOf(store[k].chunk_text)

C5_Witness ==
    /\ pc[1] = "done"
    /\ FailedEvents(log[1], "embed") # {}
    /\ chunks[1] # <<>>
    /\ store # <<>>
    /\ store = store0[1]
    /\ result[1] = "False"

\* -------------------------------------------------------------------- C6
\* C6: if the insert request of the k-th batch fails, insert_chunks returns
\* False, the failed request is the last request of the call, and the store
\* holds what it held before plus the records of the batches 1..k-1.
C6_StorageFailureSurfaced ==
    ( pc[1] = "done" /\ FailedEvents(log[1], "insert") # {} )
    => LET k == Cardinality(Events(log[1], "insert"))
       IN /\ result[1] = "False"
          /\ FailedEvents(log[1], "insert") = {Len(log[1])}
          /\ store = store0[1] \o SubSeq(records[1], 1, (k - 1) * batch_size)

\* the second batch fails after the first was written
C6_Witness ==
    /\ pc[1] = "done"
    /\ FailedEvents(log[1], "insert") # {}
    /\ Cardinality(Events(log[1], "insert")) = 2
    /\ Len(store) = Len(store0[1]) + batch_size
    /\ result[1] = "False"

\* -------------------------------------------------------------------- C7
\* C7: when an ingestion failed after some of its batches were written and
\* the same chunk list is ingested again without any failure, every chunk
\* of the list is in the store exactly once.
C7_SafeRetry ==
    ( /\ pc[1] = "done"
      /\ Classified(1)
      /\ Clean(log[1])
      /\ last[1].chunks = chunks[1]
      /\ last[1].result = "False"
      /\ last[1].after > last[1].before )
    => \A i \in 1..Len(chunks[1]) :
          Cardinality(Copies(store, chunks[1][i])) = 1

\* -------------------------------------------------------------------- C8
\* C8: the existence lookup precedes the embedding call, the provider gets
\* only the texts of the chunks classified as new, and an ingestion whose
\* chunks are all duplicates makes no embedding call.
C8_OnlyNewEmbedded ==
    /\ \A k \in Events(log[1], "embed") :
          \A j \in Events(log[1], "exists") \cup Events(log[1], "fetch") : j < k
    /\ Classified(1)
          => sent[1] = [k \in 1..Len(records[1]) |-> records[1][k].chunk_text]
    /\ ( pc[1] = "done" /\ chunks[1] # <<>> /\ records[1] = <<>>
         /\ FailedEvents(log[1], "embed") = {} )
          => Events(log[1], "embed") = {}

\* -------------------------------------------------------------------- C9
\* C9: process_video_chunks ends by returning a boolean, whatever the
\* requests do, and it returns True only if no embedding call and no
\* insert request failed.
C9_NeverRaises ==
    pc[1] = "done"
    => /\ result[1] \in {"True", "False"}
       /\ result[1] = "True"
            => /\ FailedEvents(log[1], "embed") = {}
               /\ FailedEvents(log[1], "insert") = {}

\* every kind of request has failed in some call and the call returned
C9_Witness ==
    /\ pc[1] = "done"
    /\ result[1] = "False"
    /\ FailedEvents(log[1], "embed") # {}
    /\ last[1].result = "True"
    /\ FailedEvents(last[1].log, "exists") \cup FailedEvents(last[1].log, "fetch") # {}

\* ------------------------------------------------------------------- C10
\* the stored vector parses
WellFormed(e) == Truthy(e) /\ ParseEmbedding(e).ok

InScope == Scope(store, sargs.video_id)

Ranked == {i \in 1..Len(InScope) : WellFormed(InScope[i].embedding)}

SimOf(i) ==
    cosine_similarity(sargs.query_embedding, ParseEmbedding(InScope[i].embedding).vec)

\* the fetch position of the k-th result
FetchPos(k) == CHOOSE i \in 1..Len(InScope) : InScope[i] = sresult[k]

\* row i is placed before row j: larger similarity, or the same and fetched first
Before(i, j) ==
    \/ SimLess(SimOf(j), SimOf(i))
    \/ SimEq(SimOf(i), SimOf(j)) /\ i < j

Parsable(table) == SelectSeq(table, LAMBDA r : WellFormed(r.embedding))

\* a row whose stored vector is present and raises in the parse
Malformed(r) == Truthy(r.embedding) /\ ~ParseEmbedding(r.embedding).ok

\* C11: a record whose stored vector does not parse is not in the result,
\* and the search returns what it returns when these records are not in the
\* table: the result is not empty when a record in scope parses and the
\* limit is positive.
C11_MalformedSkipped ==
    sstatus = "returned"
    => /\ \A k \in 1..Len(sresult) : WellFormed(sresult[k].embedding)
       /\ sresult = search_similar_chunks(Parsable(store), sargs.query_embedding,
                                          sargs.video_id, sargs.limit)
       /\ (Ranked # {} /\ sargs.limit > 0) => sresult # <<>>

\* a malformed record is fetched first, two records that parse are returned
C11_Witness ==
    /\ sstatus = "returned"
    /\ InScope # <<>>
    /\ Malformed(InScope[1])
    /\ Cardinality(Ranked) = 2
    /\ Len(sresult) = 2

\* ------------------------------------------------------------------- C12
\* the parsed vector of row i in scope
VecOf(i) == ParseEmbedding(InScope[i].embedding).vec

\* the position of row i in the result, 0 when it is not returned
PosOf(i) ==
    IF \E k \in 1..Len(sresult) : sresult[k] = InScope[i]
    THEN CHOOSE k \in 1..Len(sresult) : sresult[k] = InScope[i]
    ELSE 0

\* row i is returned, and before row j when that is returned too
PlacedBefore(i, j) == PosOf(i) > 0 /\ (PosOf(j) > 0 => PosOf(i) < PosOf(j))

\* b = c * a for a positive c, a not the zero vector
PositiveMultiple(a, b) ==
    /\ Len(a) = Len(b)
    /\ \A i, j \in 1..Len(a) : a[i] * b[j] = a[j] * b[i]
    /\ \E i \in 1..Len(a) : a[i] * b[i] > 0

\* the rows of the result that the claim is about: the stored vector is the query
Identical == {i \in Ranked : VecOf(i) = sargs.query_embedding}

EmptyScope ==
    IF sargs.video_id = NoVideo THEN store = <<>>
    ELSE \A k \in 1..Len(store) : store[k].video_id # sargs.video_id

\* C13: a search whose scope holds no record returns the empty list, also
\* when the fetch or the query embedding call raises: every search ends by
\* returning a list.
C13_EmptyScope ==
    /\ sstatus \in {"none", "returned", "failed", "no_query"}
    /\ (sstatus = "returned" /\ EmptyScope) => sresult = <<>>
    /\ sstatus \in {"failed", "no_query"} => sresult = <<>>

\* the table holds records that parse, none of the video searched for
C13_Witness ==
    /\ sstatus = "returned"
    /\ sargs.video_id = "v2"
    /\ sargs.limit > 0
    /\ store # <<>>
    /\ \A k \in 1..Len(store) : store[k].video_id = "v1" /\ WellFormed(store[k].embedding)
    /\ EmptyScope
    /\ sresult = <<>>

\* ------------------------------------------------------------------- C14
\* the strategies that the size bounds are stated for
Sized == cargs.strategy.name \in {"semantic", "recursive", "video_optimized"}

\* C14: no chunk emitted by the semantic, recursive or video_optimized
\* strategy is longer than max_chunk_size + overlap characters.
C14_UpperBound ==
    (cstatus = "returned" /\ Sized)
    => \A k \in 1..Len(cresult) :
          Len(cresult[k].text)
             <= cargs.strategy.max_chunk_size + cargs.strategy.overlap

\* ------------------------------------------------------------------- C15
\* what the call returns when no chunk is too short to be emitted
Unfiltered ==
    chunk_transcription(cargs.segments, cargs.video_id,
                        [cargs.strategy EXCEPT !.min_chunk_size = 0])

\* C15: every chunk emitted by the semantic, recursive or video_optimized
\* strategy, except possibly the last, has at least min_chunk_size
\* characters: a closed chunk that is shorter is not emitted.
C15_LowerBound ==
    (cstatus = "returned" /\ Sized)
    => \A k \in 1..(Len(cresult) - 1) :
          Len(cresult[k].text) >= cargs.strategy.min_chunk_size

\* a chunk was closed too short and dropped, two chunks were emitted
C15_Witness ==
    /\ cstatus = "returned"
    /\ cargs.strategy.name = "semantic"
    /\ Len(cresult) = 2
    /\ Len(Unfiltered) > 2
    /\ \E k \in 1..(Len(Unfiltered) - 1) :
          Len(Unfiltered[k].text) < cargs.strategy.min_chunk_size

\* ------------------------------------------------------------------- C16
\* the denominator of the timestamps of the call
TimeDen == 20 * total_text_length(cargs.segments)

VideoStart == cargs.segments[1].start * TimeDen

VideoEnd == cargs.segments[Len(cargs.segments)].end * TimeDen

\* C16: for segments with 0 <= start < end in time order, every chunk has
\* video_start <= start_timestamp <= end_timestamp <= video_end.
C16_TimestampOrder ==
    cstatus = "returned"
    => \A k \in 1..Len(cresult) :
          /\ cresult[k].start_timestamp.den = TimeDen
          /\ cresult[k].end_timestamp.den = TimeDen
          /\ VideoStart <= cresult[k].start_timestamp.num
          /\ cresult[k].start_timestamp.num <= cresult[k].end_timestamp.num
          /\ cresult[k].end_timestamp.num <= VideoEnd

\* the second chunk starts at index / estimated count of the duration and
\* its end is cut to the end of the video
C16_Witness ==
    /\ cstatus = "returned"
    /\ Len(cresult) >= 2
    /\ avg_chunk_size < total_text_length(cargs.segments)
    /\ VideoStart < cresult[2].start_timestamp.num
    /\ cresult[2].start_timestamp.num < cresult[2].end_timestamp.num
    /\ cresult[2].end_timestamp.num = VideoEnd

\* ------------------------------------------------------------------- C17
\* C17: under every strategy the chunks of one call carry the indexes
\* 0, 1, ..., n-1 in the order of emission.
C17_ContiguousIndexes ==
    cstatus = "returned"
    => \A k \in 1..Len(cresult) : cresult[k].chunk_index = k - 1

\* the first closed chunk was dropped and two chunks follow it
C17_Witness ==
    /\ cstatus = "returned"
    /\ cargs.strategy.name = "video_optimized"
    /\ Len(cresult) >= 2
    /\ Len(Unfiltered) > Len(cresult)
    /\ Len(Unfiltered[1].text) < cargs.strategy.min_chunk_size
    /\ cresult[2].chunk_index = 1

\* ------------------------------------------------------------------- C18
IsScenarioA ==
    /\ cstatus = "returned"
    /\ cargs.segments = ScenarioA
    /\ cargs.strategy = ScenarioAStrategy

\* C18 as stated: the combined text of Scenario A has 30 characters and the
\* fixed strategy with max_chunk_size = 15 yields two chunks of width 15.
C18_ScenarioA ==
    IsScenarioA
    => /\ Len(combine_segments(cargs.segments)) = 30
       /\ Len(cresult) = 2
       /\ \A k \in 1..Len(cresult) : Len(cresult[k].text) = 15

\* C18 amended: the combined text of Scenario A has 29 characters and the
\* fixed strategy with max_chunk_size = 15 yields two chunks that do not
\* overlap, of width 15 and 14.
C18_ScenarioAAmended ==
    IsScenarioA
    => /\ Len(combine_segments(cargs.segments)) = 29
       /\ Len(cresult) = 2
       /\ Len(cresult[1].text) = 15
       /\ Len(cresult[2].text) = 14
       /\ cresult[1].text \o cresult[2].text = combine_segments(cargs.segments)

C18_Witness ==
    /\ IsScenarioA
    /\ Len(cresult) = 2
    /\ cresult[1].text = <<"H", "a", "l", "l", "o", ".", " ", "W", "i", "e", " ",
                           "g", "e", "h", "t">>
    /\ cresult[2].text = <<" ", "e", "s", " ", "d", "i", "r", " ",
                           "h", "e", "u", "t", "e", "?">>

\* ------------------------------------------------------------------- C19
\* both calls are over, no request failed, and both classified every chunk
\* of the common list as new: with no failed lookup that needs each lookup
\* to come before the other process's insert
BothNew ==
    /\ chunks[1] = chunks[2]
    /\ chunks[1] # <<>>
    /\ \A p \in Procs :
          /\ pc[p] = "done"
          /\ Classified(p)
          /\ Clean(log[p])
          /\ Len(records[p]) = Len(chunks[p])

\* C19: when two processes ingest the same chunks and both classify them
\* as new, both insert them: the store ends with every chunk twice, two
\* records of the same video_id and content hash.
C19_DoubleInsert ==
    BothNew
    => /\ \A i \in 1..Len(chunks[1]) : Cardinality(Copies(store, chunks[1][i])) = 2
       /\ \E i, j \in 1..Len(store) : i < j /\ SameContent(store[i], store[j])

\* the interleaving exists: the store was empty, both calls succeeded and
\* the store holds the list twice
C19_Witness ==
    /\ BothNew
    /\ \A p \in Procs : store0[p] = <<>> /\ result[p] = "True"
    /\ Len(store) = 2 * Len(chunks[1])
    /\ \E i, j \in 1..Len(store) : i < j /\ SameContent(store[i], store[j])

\* ------------------------------------------------------------------- C20
\* the videos of the run counted with result r
CountedAs(r) == {k \in 1..Len(dlog) : dlog[k].result = r}

\* C20: the videos are attempted in the order of the list, each is counted
\* in exactly one of processed, skipped and failed, and the run ends only
\* when every video of the list has been counted, whatever failed.
C20_FailureIsolation ==
    /\ Len(dlog) <= Len(video_files)
    /\ \A k \in 1..Len(dlog) :
          /\ dlog[k].video = video_files[k]
          /\ dlog[k].result \in {"processed", "skipped", "failed"}
    /\ stats.processed_videos = Cardinality(CountedAs("processed"))
    /\ stats.skipped_videos = Cardinality(CountedAs("skipped"))
    /\ stats.failed_videos = Cardinality(CountedAs("failed"))
    /\ dstage \in {"check", "transcribe", "chunk", "store"} => di = Len(dlog) + 1
    /\ dstage = "done"
          => /\ Len(dlog) = Len(video_files)
             /\ stats.total_videos = Len(video_files)
             /\ stats.processed_videos + stats.skipped_videos + stats.failed_videos
                   = Len(video_files)

\* the first video failed in the storing stage, after its transcription and
\* chunking, and the second video was processed
C20_Witness ==
    /\ dstage = "done"
    /\ Len(video_files) = 2
    /\ dlog[1].result = "failed"
    /\ dlog[1].at = "store"
    /\ dlog[2].result = "processed"
    /\ stats.failed_videos = 1
    /\ stats.processed_videos = 1
    /\ stats.total_chunks > 0
    /\ store # <<>>

\* ------------------------------------------------------------------- C21
\* the step is a request of a search
SearchStep == sstatus' # sstatus

\* the step is the insert request of an ingestion call
InsertStep ==
    \E p \in Procs : Len(log'[p]) = Len(log[p]) + 1 /\ log'[p][Len(log'[p])].op = "insert"

\* C21: every step of an ingestion or of a search leaves every persisted
\* record in the store, at its place and with unchanged fields; only an
\* insert request of an ingestion adds records, and a search leaves the
\* store as it is.
C21_AppendOnly ==
    [][ /\ Len(store') >= Len(store)
        /\ SubSeq(store', 1, Len(store)) = store
        /\ store' # store => InsertStep
        /\ SearchStep => store' = store ]_vars

\* a search returned a record, and an ingestion added a record afterwards,
\* with the index of a record that was persisted before
C21_Witness ==
    /\ sstatus = "returned"
    /\ sargs.video_id = NoVideo
    /\ sargs.limit = 5
    /\ sresult # <<>>
    /\ Len(sresult) < Len(store)
    /\ \E i, j \in 1..Len(store) :
          /\ i < j
          /\ store[i].video_id = store[j].video_id
          /\ store[i].chunk_index = store[j].chunk_index

\* ------------------------------------------------------------------- C22
\* a record of another video with the normalized text of the chunk c was
\* persisted when the call started, and no record of the video of c
InOtherVideoOnly(table, c) ==
    /\ \E k \in 1..Len(table) :
          /\ table[k].video_id # c.video_id
          /\ get_content_hash(table[k].chunk_text) = get_content_hash(c.text)
    /\ \A k \in 1..Len(table) :
          table[k].video_id = c.video_id
          => get_content_hash(table[k].chunk_text) # get_content_hash(c.text)

\* C22: when a record of video A with the normalized text of a chunk of
\* video B is persisted and no record of B has that text, an ingestion of
\* the chunk without failure persists it, whether B has records or not.
C22_CrossVideo ==
    ( /\ pc[1] = "done"
      /\ Classified(1)
      /\ Clean(log[1]) )
    => \A i \in 1..Len(chunks[1]) :
          InOtherVideoOnly(store0[1], chunks[1][i])
          => /\ ~Skipped(1, i)
             /\ Copies(store, chunks[1][i]) # {}

\* ------------------------------------------------------------------- C23
\* C23: chunk_transcription called with an empty segment list returns the
\* empty chunk list under each of the four strategies; it does not raise.
C23_EmptyInput ==
    (cstatus # "none" /\ cargs.segments = <<>>)
    => /\ cstatus = "returned"
       /\ cresult = <<>>

\* the call with no segment under the fixed strategy, which drops no chunk
C23_Witness ==
    /\ cstatus = "returned"
    /\ cargs.segments = <<>>
    /\ cargs.strategy.name = "fixed"
    /\ cresult = <<>>

\* ------------------------------------------------------------------- C24
\* video_duration of the call
VideoDuration == cargs.segments[Len(cargs.segments)].end - cargs.segments[1].start

\* C24: with estimated_count = total_text_length / 400 under every strategy,
\* the chunk with index i starts at video_start + position_ratio *
\* video_duration, where position_ratio is i / estimated_count for
\* i <= estimated_count and 0.95 for i > estimated_count.
C24_PositionRatio ==
    cstatus = "returned"
    => \A k \in 1..Len(cresult) :
          LET i     == cresult[k].chunk_index
              total == total_text_length(cargs.segments)
              \* position_ratio * TimeDen
              ratio == IF i * 400 <= total THEN i * 400 * 20 ELSE 19 * total
          IN cresult[k].start_timestamp.num = VideoStart + ratio * VideoDuration

\* ------------------------------------------------------------------- C25
\* C25: when the first segment starts at 0, every chunk with index > 0
\* starts at 0.1 seconds or later.
C25_StartFloor ==
    (cstatus = "returned" /\ cargs.segments # <<>> /\ cargs.segments[1].start = 0)
    => \A k \in 1..Len(cresult) :
          cresult[k].chunk_index > 0
          => 10 * cresult[k].start_timestamp.num >= cresult[k].start_timestamp.den

\* ------------------------------------------------------------------- C26
\* the sentences of the call
Sentences == split_into_sentences(combine_segments(cargs.segments))

\* the loop variables of _semantic_chunking before the n-th of the sentences
BeforeSentence(sents, n) ==
    semantic_loop(SubSeq(sents, 1, n - 1), LoopStart, cargs.strategy,
                  cargs.segments, cargs.video_id)

\* and after a sentence
AfterSentence(before, sentence) ==
    semantic_step(before, sentence, cargs.strategy, cargs.segments, cargs.video_id)

\* the sentence closes the current chunk
Closes(before, sentence) ==
    /\ before.current_chunk # <<>>
    /\ before.current_length + Len(sentence) > cargs.strategy.max_chunk_size

\* the last m entries of a chunk, in their order
TailRun(chunk, m) == SubSeq(chunk, Len(chunk) - m + 1, Len(chunk))

\* the longest run of entries from the tail of the chunk whose text, the
\* entries joined by one space, has at most `overlap` characters
LongestTail(chunk, overlap) ==
    LET fits == {m \in 0..Len(chunk) : Len(join(TailRun(chunk, m))) <= overlap}
    IN TailRun(chunk, CHOOSE m \in fits : \A k \in fits : k <= m)

Marked(segments) ==
    [k \in 1..Len(segments) |->
        [segments[k] EXCEPT !.text =
            [i \in 1..Len(@) |->
                IF IsSpace(@[i]) THEN " "
                ELSE IF segments[k].speaker = "None" THEN "n" ELSE "s"]]]

\* the call on the marked segments
MarkedChunks == chunk_transcription(Marked(cargs.segments), cargs.video_id, cargs.strategy)

\* the call on the same segments, all of one speaker
OneSpeakerChunks ==
    chunk_transcription([k \in 1..Len(cargs.segments) |->
                            [cargs.segments[k] EXCEPT !.speaker = "None"]],
                        cargs.video_id, cargs.strategy)

\* the marks of the speakers in a text
Marks(text) == {text[i] : i \in 1..Len(text)} \ {" "}

\* the places of the spaces in a text
Spaces(text) == {i \in 1..Len(text) : IsSpace(text[i])}

\* C27: under the video_optimized strategy the text of an emitted chunk
\* comes from segments of one speaker: the chunks are cut where those of
\* the marked segments are cut, and no chunk of the marked segments holds
\* the marks of two speakers.
C27_SpeakerBoundary ==
    (cstatus = "returned" /\ cargs.strategy.name = "video_optimized")
    => \A marked \in {MarkedChunks} :
          /\ Len(marked) = Len(cresult)
          /\ \A k \in 1..Len(cresult) :
                /\ Len(marked[k].text) = Len(cresult[k].text)
                /\ Spaces(marked[k].text) = Spaces(cresult[k].text)
                /\ Cardinality(Marks(marked[k].text)) <= 1

\* three segments that fit into one chunk, cut into two chunks where the
\* speaker changes
C27_Witness ==
    /\ cstatus = "returned"
    /\ cargs.strategy.name = "video_optimized"
    /\ Len(cargs.segments) = 3
    /\ cargs.segments[1].speaker # cargs.segments[2].speaker
    /\ cargs.segments[2].speaker = cargs.segments[3].speaker
    /\ Len(OneSpeakerChunks) = 1
    /\ Len(cresult) = 2
    /\ Len(cresult[2].text) = 3

\* ------------------------------------------------------------------- C28
\* C28: among the chunks returned by one call a chunk with a larger index
\* does not start earlier than a chunk with a smaller index.
C28_StartOrder ==
    cstatus = "returned"
    => \A k \in 1..(Len(cresult) - 1) :
          /\ cresult[k].chunk_index < cresult[k + 1].chunk_index
          /\ cresult[k].start_timestamp.den = cresult[k + 1].start_timestamp.den
          /\ cresult[k].start_timestamp.num <= cresult[k + 1].start_timestamp.num

\* ------------------------------------------------------------------- C29
\* a request of the existence lookup of the current call of p raised
LookupFailed(p) ==
    FailedEvents(log[p], "exists") \cup FailedEvents(log[p], "fetch") # {}

\* C29: if a request of the existence lookup raises, the lookup returns the
\* empty set after that request, insert_chunks prepares a record for every
\* candidate, and the insert requests of a call in which none of them fails
\* add all these records to the store, also for chunks that are persisted.
C29_FailOpen ==
    (Classified(1) /\ LookupFailed(1))
    => /\ existing[1] = {}
       /\ \A k \in Events(log[1], "exists") \cup Events(log[1], "fetch") :
             ~log[1][k].ok => \A j \in Events(log[1], "exists") \cup Events(log[1], "fetch") :
                                j <= k
       /\ Len(records[1]) = Len(chunks[1])
       /\ \A i \in 1..Len(chunks[1]) :
             /\ records[1][i].video_id = chunks[1][i].video_id
             /\ records[1][i].chunk_index = chunks[1][i].chunk_index
             /\ records[1][i].chunk_text = chunks[1][i].text
       /\ pc[1] = "done" => Events(log[1], "insert") # {}
       /\ (pc[1] = "done" /\ FailedEvents(log[1], "insert") = {})
             => /\ result[1] = "True"
                /\ store = store0[1] \o records[1]

\* the list of a successful ingestion is ingested again, the fetch of the
\* rows of the video raises, and every chunk is in the store twice
C29_Witness ==
    /\ pc[1] = "done"
    /\ Classified(1)
    /\ FailedEvents(log[1], "fetch") # {}
    /\ result[1] = "True"
    /\ Len(chunks[1]) = 2
    /\ last[1].chunks = chunks[1]
    /\ last[1].result = "True"
    /\ Clean(last[1].log)
    /\ \A i \in 1..Len(chunks[1]) : Cardinality(Copies(store, chunks[1][i])) = 2

\* ------------------------------------------------------------------- C30
\* C30: when the existence check of the driver is made for a video that has
\* a record, _process_single_video returns at the check, "skipped" (or
\* "failed" when the request raises), and no transcription, chunking or
\* ingestion call follows; the records of a video change only in the
\* storing stage of that video, and all its records are then of the current
\* ingestion call: a video that has records gains none.
C30_NoTopUp ==
    [][ /\ (dstage = "check" /\ RowsOf(store, CurrentVideo) # <<>>)
           => /\ Len(dlog') = Len(dlog) + 1
              /\ dlog'[Len(dlog')].video = CurrentVideo
              /\ dlog'[Len(dlog')].result \in {"skipped", "failed"}
              /\ dlog'[Len(dlog')].at = "check"
              /\ dstage' \in {"check", "done"}
              /\ store' = store
              /\ calls' = calls
        /\ \A v \in VideoIds :
              RowsOf(store', v) # RowsOf(store, v)
              => /\ dstage = "store"
                 /\ CurrentVideo = v
                 /\ RowsOf(store, v) = SubSeq(records[1], 1, pos[1]) ]_vars

\* the run is over: the video whose first batch was persisted, and whose
\* record batch_size + 1 never was, was skipped and has the same records,
\* and the video after it was processed
C30_Witness ==
    /\ dstage = "done"
    /\ video_files = <<"v1", "v2">>
    /\ dlog[1].result = "skipped"
    /\ dlog[2].result = "processed"
    /\ Len(RowsOf(store, "v1")) = batch_size
    /\ \A k \in 1..Len(store) : store[k].id # batch_size + 1
    /\ \E k \in 1..Len(store) : store[k].video_id = "v2" /\ store[k].id > batch_size + 1

TypeOK ==
    /\ \A p \in Procs : pc[p] \in {"idle", "embed", "check", "tier2", "insert", "done"}
    /\ \A p \in Procs : result[p] \in {"none", "True", "False", "raised"}
====
